---- MODULE Spec2Model ----
(***************************************************************************)
(* Model of pkg/ingress/model_build_load_balancer.go: the build of one     *)
(* LoadBalancerSpec from the annotations of the members of an ingress      *)
(* group (defaultModelBuildTask.buildLoadBalancer and the steps it runs).  *)
(*                                                                         *)
(* Strings are TLC strings; Len, SubSeq and \o act on them character by    *)
(* character.  A Go error is a record (see Error); nil is NoErr.           *)
(***************************************************************************)
EXTENDS Integers, Sequences, FiniteSets, TLC

VARIABLES
    task,                   \* the fields of defaultModelBuildTask the build reads
    cloud,                  \* what the external collaborators answer
    pc,                     \* position inside buildLoadBalancer / buildLoadBalancerSpec
    scheme,                 \* locals of buildLoadBalancerSpec
    ipAddressType,
    subnetMappings,
    securityGroups,
    loadBalancerAttributes,
    tags,
    err,                    \* the error being returned, NoErr when nil
    lbSpec,                 \* what buildLoadBalancerSpec returned
    loadBalancer,           \* t.loadBalancer
    stack,                  \* resource IDs registered on t.stack
    calls                   \* every step and collaborator invoked so far, in order

vars == <<task, cloud, pc, scheme, ipAddressType, subnetMappings, securityGroups,
          loadBalancerAttributes, tags, err, lbSpec, loadBalancer, stack, calls>>

---------------------------------------------------------------------------
(* Bounds of the model. *)

\* largest number of members of the ingress group
MaxMembers == 3
\* longest list of subnet / security group tokens handed to a resolver
MaxTokens == 3
\* longest list DiscoverSubnets answers with
MaxDiscovered == 3
\* longest group name
MaxNameLen == 20

---------------------------------------------------------------------------
(* Program constants. *)

resourceIDLoadBalancer == "LoadBalancer"

LoadBalancerSchemeInternetFacing == "internet-facing"
LoadBalancerSchemeInternal == "internal"
IPAddressTypeIPV4 == "ipv4"
IPAddressTypeDualStack == "dualstack"
LoadBalancerTypeApplication == "application"

\* fmt precisions of buildLoadBalancerName: %.17s, %.8s, %.10s
ExplicitNameLen == 17
ImplicitNameLen == 8
HashLen == 10
\* the least number of discovered subnets buildLoadBalancerSubnetMappings accepts
MinDiscoveredSubnets == 2

SubnetIDPrefix == "subnet-"
SecurityGroupIDPrefix == "sg-"

\* annotation suffixes (package annotations)
IngressSuffixScheme == "scheme"
IngressSuffixIPAddressType == "ipAddressType"
IngressSuffixSubnets == "subnets"
IngressSuffixSecurityGroups == "securityGroups"
IngressSuffixLoadBalancerAttributes == "loadBalancerAttributes"
IngressSuffixTags == "tags"

---------------------------------------------------------------------------
(* Errors and results. *)

\* errors.Errorf(msg, ...): msg is the text before the verbs, the other
\* fields are the values formatted into it.
Error(msg, key, lhs, rhs, values) ==
    [msg |-> msg, key |-> key, lhs |-> lhs, rhs |-> rhs, values |-> values]

NoErr == Error("", "", <<>>, <<>>, {})

\* a collaborator's own failure, passed through unchanged
UpstreamError(who) == Error("upstream", who, <<>>, <<>>, {})

Call(fn, arg) == [fn |-> fn, arg |-> arg]

Range(s) == {s[i] : i \in 1..Len(s)}

Min(a, b) == IF a < b THEN a ELSE b

---------------------------------------------------------------------------
(* Annotations of one group member, as the annotation parser hands them    *)
(* out: every suffix is either absent or carries a typed value.            *)

NoString == [exists |-> FALSE, value |-> ""]
SomeString(v) == [exists |-> TRUE, value |-> v]
NoSlice == [exists |-> FALSE, value |-> <<>>]
SomeSlice(v) == [exists |-> TRUE, value |-> v]
\* a nil or empty map[string]string
EmptyMap == [k \in {} |-> ""]
NoMap == [exists |-> FALSE, malformed |-> FALSE, value |-> EmptyMap]
SomeMap(v) == [exists |-> TRUE, malformed |-> FALSE, value |-> v]
MalformedMap == [exists |-> TRUE, malformed |-> TRUE, value |-> EmptyMap]

\* a member without any annotation
EmptyIng ==
    [scheme |-> NoString, ipAddressType |-> NoString,
     subnets |-> NoSlice, securityGroups |-> NoSlice,
     loadBalancerAttributes |-> NoMap, tags |-> NoMap]

\* exists := ParseStringAnnotation(suffix, &value, ing.Annotations)
ParseStringAnnotation(suffix, ing) == ing[suffix]

\* exists := ParseStringSliceAnnotation(suffix, &value, ing.Annotations)
ParseStringSliceAnnotation(suffix, ing) == ing[suffix]

\* _, err := ParseStringMapAnnotation(suffix, &value, ing.Annotations); an
\* absent annotation leaves the map nil, a malformed one is an error
ParseStringMapAnnotation(suffix, ing) ==
    IF ing[suffix].exists /\ ing[suffix].malformed
    THEN [err |-> Error("failed to parse stringMap annotation", suffix, <<>>, <<>>, {}),
          value |-> EmptyMap]
    ELSE [err |-> NoErr,
          value |-> IF ing[suffix].exists THEN ing[suffix].value ELSE EmptyMap]

Members(t) == t.ingGroup.Members

---------------------------------------------------------------------------
(* buildLoadBalancerScheme, buildLoadBalancerIPAddressType *)

\* the sets.String filled by the loop over the members
explicitSchemes(t) ==
    {ParseStringAnnotation(IngressSuffixScheme, Members(t)[i]).value :
        i \in {j \in 1..Len(Members(t)) :
                 ParseStringAnnotation(IngressSuffixScheme, Members(t)[j]).exists}}

\* buildLoadBalancerScheme with the conflict test off by one (> 2 for > 1)
buildLoadBalancerScheme_ConflictOffByOne(t) ==
    LET explicit == explicitSchemes(t) IN
    IF Cardinality(explicit) = 0
    THEN [value |-> t.defaultScheme, err |-> NoErr]
    ELSE IF Cardinality(explicit) > 2
    THEN [value |-> "", err |-> Error("conflicting scheme", "", <<>>, <<>>, explicit)]
    ELSE LET rawScheme == CHOOSE x \in explicit : TRUE IN
         IF rawScheme \in {LoadBalancerSchemeInternetFacing, LoadBalancerSchemeInternal}
         THEN [value |-> rawScheme, err |-> NoErr]
         ELSE [value |-> "", err |-> Error("unknown scheme", rawScheme, <<>>, <<>>, {})]

buildLoadBalancerScheme(t) ==
    LET explicit == explicitSchemes(t) IN
    IF Cardinality(explicit) = 0
    THEN [value |-> t.defaultScheme, err |-> NoErr]
    ELSE IF Cardinality(explicit) > 1
    THEN [value |-> "", err |-> Error("conflicting scheme", "", <<>>, <<>>, explicit)]
    ELSE LET rawScheme == CHOOSE x \in explicit : TRUE IN
         IF rawScheme = LoadBalancerSchemeInternetFacing
         THEN [value |-> LoadBalancerSchemeInternetFacing, err |-> NoErr]
         ELSE IF rawScheme = LoadBalancerSchemeInternal
         THEN [value |-> LoadBalancerSchemeInternal, err |-> NoErr]
         ELSE [value |-> "", err |-> Error("unknown scheme", rawScheme, <<>>, <<>>, {})]

explicitIPAddressTypes(t) ==
    {ParseStringAnnotation(IngressSuffixIPAddressType, Members(t)[i]).value :
        i \in {j \in 1..Len(Members(t)) :
                 ParseStringAnnotation(IngressSuffixIPAddressType, Members(t)[j]).exists}}

buildLoadBalancerIPAddressType(t) ==
    LET explicit == explicitIPAddressTypes(t) IN
    IF Cardinality(explicit) = 0
    THEN [value |-> t.defaultIPAddressType, err |-> NoErr]
    ELSE IF Cardinality(explicit) > 1
    THEN [value |-> "",
          err |-> Error("conflicting IPAddressType", "", <<>>, <<>>, explicit)]
    ELSE LET rawIPAddressType == CHOOSE x \in explicit : TRUE IN
         IF rawIPAddressType = IPAddressTypeIPV4
         THEN [value |-> IPAddressTypeIPV4, err |-> NoErr]
         ELSE IF rawIPAddressType = IPAddressTypeDualStack
         THEN [value |-> IPAddressTypeDualStack, err |-> NoErr]
         ELSE [value |-> "",
               err |-> Error("unknown IPAddressType", rawIPAddressType, <<>>, <<>>, {})]

---------------------------------------------------------------------------
(* buildLoadBalancerName *)

AlnumChars == "abcdefghijklmnopqrstuvwxyzABCDEFGHIJKLMNOPQRSTUVWXYZ0123456789"
\* every character a name, cluster name or scheme of the model is written with
CharTable == AlnumChars \o "-/._"
HexDigits == "0123456789abcdef"

CharAt(s, i) == SubSeq(s, i, i)

IsAlnum(c) == \E i \in 1..Len(AlnumChars) : CharAt(AlnumChars, i) = c

\* invalidLoadBalancerNamePattern.ReplaceAllString(s, ""): every character
\* matching [[:^alnum:]] is deleted
RECURSIVE ReplaceAllInvalid(_)
ReplaceAllInvalid(s) ==
    IF Len(s) = 0 THEN ""
    ELSE (IF IsAlnum(CharAt(s, 1)) THEN CharAt(s, 1) ELSE "")
            \o ReplaceAllInvalid(SubSeq(s, 2, Len(s)))

\* Truncate without the precision: the whole string
Truncate_Unbounded(s, n) == s

\* the verb %.Ns of fmt.Sprintf: at most n characters of s
Truncate(s, n) == SubSeq(s, 1, Min(n, Len(s)))

\* GroupID.IsExplicit and GroupID.String
IsExplicit(id) == id.Namespace = ""
GroupIDString(id) ==
    IF IsExplicit(id) THEN id.Name ELSE id.Namespace \o "/" \o id.Name

CharCode(c) == CHOOSE i \in 1..Len(CharTable) : CharAt(CharTable, i) = c

\* One lane of the digest: a polynomial hash of the bytes written, 16 bits wide.
RECURSIVE DigestLane(_, _, _)
DigestLane(bytes, mult, acc) ==
    IF Len(bytes) = 0 THEN acc
    ELSE DigestLane(SubSeq(bytes, 2, Len(bytes)), mult,
                    (acc * mult + CharCode(CharAt(bytes, 1))) % 65536)

Hex4(n) ==
    CharAt(HexDigits, ((n \div 4096) % 16) + 1) \o CharAt(HexDigits, ((n \div 256) % 16) + 1)
        \o CharAt(HexDigits, ((n \div 16) % 16) + 1) \o CharAt(HexDigits, (n % 16) + 1)

\* hex.EncodeToString(sha256 of the bytes written): a deterministic digest of
\* the concatenated input, written in hexadecimal.  The digest itself is a
\* stand-in for SHA-256 (three 16-bit lanes); only its first HashLen digits are
\* ever used.
Sha256Hex(bytes) ==
    Hex4(DigestLane(bytes, 31, 7)) \o Hex4(DigestLane(bytes, 131, 11))
        \o Hex4(DigestLane(bytes, 257, 13))

buildLoadBalancerName(t, sch) ==
    LET uuid == Sha256Hex(t.clusterName \o GroupIDString(t.ingGroup.ID) \o sch) IN
    IF IsExplicit(t.ingGroup.ID)
    THEN LET payload == ReplaceAllInvalid(t.ingGroup.ID.Name) IN
         "k8s-" \o Truncate(payload, ExplicitNameLen) \o "-" \o Truncate(uuid, HashLen)
    ELSE LET sanitizedNamespace == ReplaceAllInvalid(t.ingGroup.ID.Namespace)
             sanitizedName == ReplaceAllInvalid(t.ingGroup.ID.Name) IN
         "k8s-" \o Truncate(sanitizedNamespace, ImplicitNameLen) \o "-"
                \o Truncate(sanitizedName, ImplicitNameLen) \o "-"
                \o Truncate(uuid, HashLen)

---------------------------------------------------------------------------
(* The EC2 lookups and the two resolvers. *)

HasPrefix(s, prefix) ==
    Len(s) >= Len(prefix) /\ SubSeq(s, 1, Len(prefix)) = prefix

\* A DescribeSubnetsInput / DescribeSecurityGroupsInput: the IDs asked for
\* (empty: any) and the values of the filters tag:Name and vpc-id (empty: no
\* such filter).
DescribeInput(ids, tagNames, vpcIDs) ==
    [Ids |-> ids, TagNames |-> tagNames, VpcIds |-> vpcIDs]

Matches(entry, id, req) ==
    /\ (Len(req.Ids) > 0 => id \in Range(req.Ids))
    /\ (Len(req.TagNames) > 0 => entry.Name \in Range(req.TagNames))
    /\ (Len(req.VpcIds) > 0 => entry.VpcId \in Range(req.VpcIds))

\* ec2Client.DescribeSubnetsAsList: the subnets of the account matching the
\* request, in the order the service lists them, or the service's error
DescribeSubnetsAsList(c, req) ==
    IF c.describeSubnetsErr
    THEN [value |-> <<>>, err |-> UpstreamError("DescribeSubnetsAsList")]
    ELSE [value |-> SelectSeq(c.subnets, LAMBDA e : Matches(e, e.SubnetId, req)),
          err |-> NoErr]

DescribeSecurityGroupsAsList(c, req) ==
    IF c.describeSecurityGroupsErr
    THEN [value |-> <<>>, err |-> UpstreamError("DescribeSecurityGroupsAsList")]
    ELSE [value |-> SelectSeq(c.securityGroups, LAMBDA e : Matches(e, e.GroupId, req)),
          err |-> NoErr]

resolveSubnetIDsViaNameOrIDSlice(t, c, subnetNameOrIDs) ==
    LET subnetIDs == SelectSeq(subnetNameOrIDs, LAMBDA x : HasPrefix(x, SubnetIDPrefix))
        subnetNames == SelectSeq(subnetNameOrIDs, LAMBDA x : ~HasPrefix(x, SubnetIDPrefix))
        reqIDs == DescribeInput(subnetIDs, <<>>, <<>>)
        reqNames == DescribeInput(<<>>, subnetNames, <<t.vpcID>>)
        byID == IF Len(subnetIDs) > 0 THEN DescribeSubnetsAsList(c, reqIDs)
                ELSE [value |-> <<>>, err |-> NoErr]
        byName == IF Len(subnetNames) > 0 THEN DescribeSubnetsAsList(c, reqNames)
                  ELSE [value |-> <<>>, err |-> NoErr]
        callIDs == IF Len(subnetIDs) > 0
                   THEN <<Call("DescribeSubnetsAsList", subnetIDs)>> ELSE <<>>
        callNames == IF Len(subnetNames) > 0
                     THEN <<Call("DescribeSubnetsAsList", subnetNames)>> ELSE <<>>
        resolvedSubnets == byID.value \o byName.value
        resolvedSubnetIDs == [i \in 1..Len(resolvedSubnets) |-> resolvedSubnets[i].SubnetId]
    IN
    IF byID.err # NoErr
    THEN [value |-> <<>>, err |-> byID.err, calls |-> callIDs]
    ELSE IF byName.err # NoErr
    THEN [value |-> <<>>, err |-> byName.err, calls |-> callIDs \o callNames]
    ELSE IF Len(resolvedSubnetIDs) # Len(subnetNameOrIDs)
    THEN [value |-> <<>>,
          err |-> Error("couldn't found all subnets", "", subnetNameOrIDs,
                        resolvedSubnetIDs, {}),
          calls |-> callIDs \o callNames]
    ELSE [value |-> resolvedSubnetIDs, err |-> NoErr, calls |-> callIDs \o callNames]

resolveSecurityGroupIDsViaNameOrIDSlice(t, c, sgNameOrIDs) ==
    LET sgIDs == SelectSeq(sgNameOrIDs, LAMBDA x : HasPrefix(x, SecurityGroupIDPrefix))
        sgNames == SelectSeq(sgNameOrIDs, LAMBDA x : ~HasPrefix(x, SecurityGroupIDPrefix))
        reqIDs == DescribeInput(sgIDs, <<>>, <<>>)
        reqNames == DescribeInput(<<>>, sgNames, <<t.vpcID>>)
        byID == IF Len(sgIDs) > 0 THEN DescribeSecurityGroupsAsList(c, reqIDs)
                ELSE [value |-> <<>>, err |-> NoErr]
        byName == IF Len(sgNames) > 0 THEN DescribeSecurityGroupsAsList(c, reqNames)
                  ELSE [value |-> <<>>, err |-> NoErr]
        callIDs == IF Len(sgIDs) > 0
                   THEN <<Call("DescribeSecurityGroupsAsList", sgIDs)>> ELSE <<>>
        callNames == IF Len(sgNames) > 0
                     THEN <<Call("DescribeSecurityGroupsAsList", sgNames)>> ELSE <<>>
        resolvedSGs == byID.value \o byName.value
        resolvedSGIDs == [i \in 1..Len(resolvedSGs) |-> resolvedSGs[i].GroupId]
    IN
    IF byID.err # NoErr
    THEN [value |-> <<>>, err |-> byID.err, calls |-> callIDs]
    ELSE IF byName.err # NoErr
    THEN [value |-> <<>>, err |-> byName.err, calls |-> callIDs \o callNames]
    ELSE IF Len(resolvedSGIDs) # Len(sgNameOrIDs)
    THEN [value |-> <<>>,
          err |-> Error("couldn't found all securityGroups", "", sgNameOrIDs,
                        resolvedSGIDs, {}),
          calls |-> callIDs \o callNames]
    ELSE [value |-> resolvedSGIDs, err |-> NoErr, calls |-> callIDs \o callNames]

buildLoadBalancerSubnetMappingsWithSubnetIDs(subnetIDs) ==
    [i \in 1..Len(subnetIDs) |-> [SubnetID |-> subnetIDs[i]]]

---------------------------------------------------------------------------
(* buildLoadBalancerSubnetMappings, buildLoadBalancerSecurityGroups *)

\* subnetsResolver.DiscoverSubnets(ctx, scheme): candidate subnets, each with
\* its Availability Zone, or the resolver's error
DiscoverSubnets(c, sch) ==
    IF c.discoverErr
    THEN [value |-> <<>>, err |-> UpstreamError("DiscoverSubnets")]
    ELSE [value |-> c.discovered, err |-> NoErr]

\* buildManagedSecurityGroup(ctx, listenPortConfigByPort, ipAddressType): the
\* managed security group, or the provisioner's error
buildManagedSecurityGroup(c, ipType) ==
    IF c.managedSGErr
    THEN [value |-> "", err |-> UpstreamError("buildManagedSecurityGroup")]
    ELSE [value |-> "ManagedLBSecurityGroup", err |-> NoErr]

\* core.StringToken: sg.GroupID() refers to a resource of the stack,
\* core.LiteralStringToken(id) is the id itself
ResourceToken(res) == [literal |-> FALSE, value |-> res]
LiteralStringToken(id) == [literal |-> TRUE, value |-> id]

\* cmp.Equal(a, b, equality.IgnoreStringSliceOrder()): equal as sets
EqualIgnoreStringSliceOrder(a, b) == Range(a) = Range(b)

\* cmp.Equal(a, b) on two []string
CmpEqual(a, b) == a = b

\* explicitNameOrIDsList taking an annotation with an empty list for an
\* absent one
explicitNameOrIDsList_SkipsEmpty(t, suffix) ==
    LET ings == SelectSeq(Members(t),
                          LAMBDA ing : /\ ParseStringSliceAnnotation(suffix, ing).exists
                                       /\ Len(ParseStringSliceAnnotation(suffix, ing).value) > 0)
    IN [i \in 1..Len(ings) |-> ParseStringSliceAnnotation(suffix, ings[i]).value]

\* the lists of the members that carry the annotation, in member order
explicitNameOrIDsList(t, suffix) ==
    LET ings == SelectSeq(Members(t),
                          LAMBDA ing : ParseStringSliceAnnotation(suffix, ing).exists)
    IN [i \in 1..Len(ings) |-> ParseStringSliceAnnotation(suffix, ings[i]).value]

explicitSubnetNameOrIDsList(t) == explicitNameOrIDsList(t, IngressSuffixSubnets)

explicitSGNameOrIDsList(t) == explicitNameOrIDsList(t, IngressSuffixSecurityGroups)

\* the loop over explicitSubnetNameOrIDsList[1:]: the first list that is not
\* the chosen one up to order is a conflict
\* chosenSubnetNameOrIDs comparing the second list only (a loop over [1:2])
chosenSubnetNameOrIDs_OnlySecond(t) ==
    LET list == explicitSubnetNameOrIDsList(t)
        chosen == list[1]
    IN IF Len(list) >= 2 /\ ~EqualIgnoreStringSliceOrder(chosen, list[2])
       THEN [value |-> <<>>,
             err |-> Error("conflicting subnets", "", chosen, list[2], {})]
       ELSE [value |-> chosen, err |-> NoErr]

\* chosenSubnetNameOrIDs keeping the last list where the code keeps the first
chosenSubnetNameOrIDs_LastWins(t) ==
    LET list == explicitSubnetNameOrIDsList(t)
        chosen == list[Len(list)]
        differing == {i \in 1..Len(list) : ~EqualIgnoreStringSliceOrder(chosen, list[i])}
    IN IF differing # {}
       THEN [value |-> <<>>,
             err |-> Error("conflicting subnets", "", chosen,
                           list[CHOOSE j \in differing : TRUE], {})]
       ELSE [value |-> chosen, err |-> NoErr]

chosenSubnetNameOrIDs(t) ==
    LET list == explicitSubnetNameOrIDsList(t)
        chosen == list[1]
        differing == {i \in 2..Len(list) : ~EqualIgnoreStringSliceOrder(chosen, list[i])}
    IN IF differing # {}
       THEN LET i == CHOOSE j \in differing : \A k \in differing : j <= k IN
            [value |-> <<>>,
             err |-> Error("conflicting subnets", "", chosen, list[i], {})]
       ELSE [value |-> chosen, err |-> NoErr]

chosenSGNameOrIDs(t) ==
    LET list == explicitSGNameOrIDsList(t)
        chosen == list[1]
        differing == {i \in 2..Len(list) : ~CmpEqual(chosen, list[i])}
    IN IF differing # {}
       THEN LET i == CHOOSE j \in differing : \A k \in differing : j <= k IN
            [value |-> <<>>,
             err |-> Error("conflicting securityGroups", "", chosen, list[i], {})]
       ELSE [value |-> chosen, err |-> NoErr]

buildLoadBalancerSubnetMappings(t, c, sch) ==
    IF Len(explicitSubnetNameOrIDsList(t)) = 0
    THEN LET chosenSubnets == DiscoverSubnets(c, sch)
             chosenSubnetIDs ==
                 [i \in 1..Len(chosenSubnets.value) |-> chosenSubnets.value[i].SubnetId]
             called == <<Call("DiscoverSubnets", <<sch>>)>>
         IN IF chosenSubnets.err # NoErr
            THEN [value |-> <<>>, err |-> chosenSubnets.err, calls |-> called]
            ELSE IF Len(chosenSubnetIDs) < MinDiscoveredSubnets
            THEN [value |-> <<>>,
                  err |-> Error("cannot find at least two subnets from different Availability Zones",
                                "", <<>>, chosenSubnetIDs, {}),
                  calls |-> called]
            ELSE [value |-> buildLoadBalancerSubnetMappingsWithSubnetIDs(chosenSubnetIDs),
                  err |-> NoErr, calls |-> called]
    ELSE LET chosen == chosenSubnetNameOrIDs(t) IN
         IF chosen.err # NoErr
         THEN [value |-> <<>>, err |-> chosen.err, calls |-> <<>>]
         ELSE LET chosenSubnetIDs == resolveSubnetIDsViaNameOrIDSlice(t, c, chosen.value)
                  called == <<Call("resolveSubnetIDsViaNameOrIDSlice", chosen.value)>>
                                \o chosenSubnetIDs.calls
              IN IF chosenSubnetIDs.err # NoErr
                 THEN [value |-> <<>>, err |-> chosenSubnetIDs.err, calls |-> called]
                 ELSE [value |-> buildLoadBalancerSubnetMappingsWithSubnetIDs(
                                     chosenSubnetIDs.value),
                       err |-> NoErr, calls |-> called]

buildLoadBalancerSecurityGroups(t, c, ipType) ==
    IF Len(explicitSGNameOrIDsList(t)) = 0
    THEN LET sg == buildManagedSecurityGroup(c, ipType)
             called == <<Call("buildManagedSecurityGroup", <<ipType>>)>>
         IN IF sg.err # NoErr
            THEN [value |-> <<>>, err |-> sg.err, calls |-> called]
            ELSE [value |-> <<ResourceToken(sg.value)>>, err |-> NoErr, calls |-> called]
    ELSE LET chosen == chosenSGNameOrIDs(t) IN
         IF chosen.err # NoErr
         THEN [value |-> <<>>, err |-> chosen.err, calls |-> <<>>]
         ELSE LET chosenSGIDs == resolveSecurityGroupIDsViaNameOrIDSlice(t, c, chosen.value)
                  called == <<Call("resolveSecurityGroupIDsViaNameOrIDSlice", chosen.value)>>
                                \o chosenSGIDs.calls
              IN IF chosenSGIDs.err # NoErr
                 THEN [value |-> <<>>, err |-> chosenSGIDs.err, calls |-> called]
                 ELSE [value |-> [i \in 1..Len(chosenSGIDs.value) |->
                                     LiteralStringToken(chosenSGIDs.value[i])],
                       err |-> NoErr, calls |-> called]

---------------------------------------------------------------------------
(* buildLoadBalancerAttributes, buildLoadBalancerTags *)

\* Overlay forgetting what was merged before: only the member's own entries
Overlay_DropsMerged(merged, raw) == raw

\* merged after the assignments merged[k] = v for every k, v of raw
Overlay(merged, raw) ==
    [k \in DOMAIN merged \cup DOMAIN raw |->
        IF k \in DOMAIN raw THEN raw[k] ELSE merged[k]]

\* The loop over the members shared by the two map fields, from member i on
\* with the map merged so far: the set of outcomes it can have.  Go ranges
\* over a map in no fixed order, so when a member disagrees with the merged
\* map on several keys, any of them may be the one reported.
RECURSIVE mergeStringMaps(_, _, _, _, _)
mergeStringMaps(t, suffix, msg, i, merged) ==
    IF i > Len(Members(t))
    THEN {[value |-> merged, err |-> NoErr]}
    ELSE LET parsed == ParseStringMapAnnotation(suffix, Members(t)[i])
             raw == parsed.value
             conflicting == {k \in DOMAIN raw : k \in DOMAIN merged /\ merged[k] # raw[k]}
         IN IF parsed.err # NoErr
            THEN {[value |-> EmptyMap, err |-> parsed.err]}
            ELSE IF conflicting # {}
            THEN {[value |-> EmptyMap,
                   err |-> Error(msg, k, <<merged[k]>>, <<raw[k]>>, {})] : k \in conflicting}
            ELSE mergeStringMaps(t, suffix, msg, i + 1, Overlay(merged, raw))

\* every order in which a range over the map can append its entries
AttributeLists(m) ==
    {[i \in 1..Cardinality(DOMAIN m) |-> [Key |-> order[i], Value |-> m[order[i]]]] :
        order \in {o \in [1..Cardinality(DOMAIN m) -> DOMAIN m] :
                     \A i, j \in DOMAIN o : o[i] = o[j] => i = j}}

\* the outcomes buildLoadBalancerAttributes can have
buildLoadBalancerAttributes(t) ==
    UNION {IF r.err # NoErr
           THEN {[value |-> <<>>, err |-> r.err]}
           ELSE {[value |-> l, err |-> NoErr] : l \in AttributeLists(r.value)} :
           r \in mergeStringMaps(t, IngressSuffixLoadBalancerAttributes,
                                 "conflicting loadBalancerAttribute", 1, EmptyMap)}

\* the outcomes buildLoadBalancerTags can have
buildLoadBalancerTags(t) ==
    mergeStringMaps(t, IngressSuffixTags, "conflicting tag", 1, EmptyMap)

---------------------------------------------------------------------------
(* buildLoadBalancerSpec and buildLoadBalancer, one action per step. *)

\* elbv2model.LoadBalancerSpec{}
ZeroSpec ==
    [Name |-> "", Type |-> "", Scheme |-> "", IPAddressType |-> "",
     SubnetMappings |-> <<>>, SecurityGroups |-> <<>>,
     LoadBalancerAttributes |-> <<>>, Tags |-> EmptyMap]

\* a nil *elbv2model.LoadBalancer
NilLoadBalancer == [nil |-> TRUE, Spec |-> ZeroSpec]

\* elbv2model.NewLoadBalancer(stack, id, spec): the resource, which the
\* constructor registers on the stack under id
NewLoadBalancer(id, spec) == [nil |-> FALSE, Spec |-> spec]

\* Advance never returning early
Advance_IgnoresError(e, next) == next

\* if err != nil { return elbv2model.LoadBalancerSpec{}, err }: where
\* buildLoadBalancerSpec goes after a step that returned e
Advance(e, next) == IF e # NoErr THEN "return" ELSE next

Step_buildLoadBalancerScheme ==
    /\ pc = "buildLoadBalancerScheme"
    /\ LET r == buildLoadBalancerScheme(task) IN
         /\ scheme' = r.value
         /\ err' = r.err
         /\ pc' = Advance(r.err, "buildLoadBalancerIPAddressType")
    /\ calls' = Append(calls, Call("buildLoadBalancerScheme", <<>>))
    /\ UNCHANGED <<task, cloud, ipAddressType, subnetMappings, securityGroups,
                   loadBalancerAttributes, tags, lbSpec, loadBalancer, stack>>

Step_buildLoadBalancerIPAddressType ==
    /\ pc = "buildLoadBalancerIPAddressType"
    /\ LET r == buildLoadBalancerIPAddressType(task) IN
         /\ ipAddressType' = r.value
         /\ err' = r.err
         /\ pc' = Advance(r.err, "buildLoadBalancerSubnetMappings")
    /\ calls' = Append(calls, Call("buildLoadBalancerIPAddressType", <<>>))
    /\ UNCHANGED <<task, cloud, scheme, subnetMappings, securityGroups,
                   loadBalancerAttributes, tags, lbSpec, loadBalancer, stack>>

Step_buildLoadBalancerSubnetMappings ==
    /\ pc = "buildLoadBalancerSubnetMappings"
    /\ LET r == buildLoadBalancerSubnetMappings(task, cloud, scheme) IN
         /\ subnetMappings' = r.value
         /\ err' = r.err
         /\ pc' = Advance(r.err, "buildLoadBalancerSecurityGroups")
         /\ calls' = Append(calls, Call("buildLoadBalancerSubnetMappings", <<scheme>>))
                        \o r.calls
    /\ UNCHANGED <<task, cloud, scheme, ipAddressType, securityGroups,
                   loadBalancerAttributes, tags, lbSpec, loadBalancer, stack>>

Step_buildLoadBalancerSecurityGroups ==
    /\ pc = "buildLoadBalancerSecurityGroups"
    /\ LET r == buildLoadBalancerSecurityGroups(task, cloud, ipAddressType) IN
         /\ securityGroups' = r.value
         /\ err' = r.err
         /\ pc' = Advance(r.err, "buildLoadBalancerAttributes")
         /\ calls' = Append(calls, Call("buildLoadBalancerSecurityGroups", <<ipAddressType>>))
                        \o r.calls
    /\ UNCHANGED <<task, cloud, scheme, ipAddressType, subnetMappings,
                   loadBalancerAttributes, tags, lbSpec, loadBalancer, stack>>

Step_buildLoadBalancerAttributes ==
    /\ pc = "buildLoadBalancerAttributes"
    /\ \E r \in buildLoadBalancerAttributes(task) :
         /\ loadBalancerAttributes' = r.value
         /\ err' = r.err
         /\ pc' = Advance(r.err, "buildLoadBalancerTags")
    /\ calls' = Append(calls, Call("buildLoadBalancerAttributes", <<>>))
    /\ UNCHANGED <<task, cloud, scheme, ipAddressType, subnetMappings, securityGroups,
                   tags, lbSpec, loadBalancer, stack>>

Step_buildLoadBalancerTags ==
    /\ pc = "buildLoadBalancerTags"
    /\ \E r \in buildLoadBalancerTags(task) :
         /\ tags' = r.value
         /\ err' = r.err
         /\ pc' = Advance(r.err, "buildLoadBalancerName")
    /\ calls' = Append(calls, Call("buildLoadBalancerTags", <<>>))
    /\ UNCHANGED <<task, cloud, scheme, ipAddressType, subnetMappings, securityGroups,
                   loadBalancerAttributes, lbSpec, loadBalancer, stack>>

\* the last step of buildLoadBalancerSpec: the name, then the composed spec
Step_buildLoadBalancerName ==
    /\ pc = "buildLoadBalancerName"
    /\ lbSpec' = [Name |-> buildLoadBalancerName(task, scheme),
                  Type |-> LoadBalancerTypeApplication,
                  Scheme |-> scheme,
                  IPAddressType |-> ipAddressType,
                  SubnetMappings |-> subnetMappings,
                  SecurityGroups |-> securityGroups,
                  LoadBalancerAttributes |-> loadBalancerAttributes,
                  Tags |-> tags]
    /\ pc' = "return"
    /\ calls' = Append(calls, Call("buildLoadBalancerName", <<scheme>>))
    /\ UNCHANGED <<task, cloud, scheme, ipAddressType, subnetMappings, securityGroups,
                   loadBalancerAttributes, tags, err, loadBalancer, stack>>

\* buildLoadBalancer once buildLoadBalancerSpec has returned
Return_buildLoadBalancer ==
    /\ pc = "return"
    /\ pc' = "done"
    /\ IF err # NoErr
       THEN UNCHANGED <<loadBalancer, stack, calls>>
       ELSE /\ loadBalancer' = NewLoadBalancer(resourceIDLoadBalancer, lbSpec)
            /\ stack' = stack \cup {resourceIDLoadBalancer}
            /\ calls' = Append(calls, Call("NewLoadBalancer", <<resourceIDLoadBalancer>>))
    /\ UNCHANGED <<task, cloud, scheme, ipAddressType, subnetMappings, securityGroups,
                   loadBalancerAttributes, tags, err, lbSpec>>

Next ==
    \/ Step_buildLoadBalancerScheme
    \/ Step_buildLoadBalancerIPAddressType
    \/ Step_buildLoadBalancerSubnetMappings
    \/ Step_buildLoadBalancerSecurityGroups
    \/ Step_buildLoadBalancerAttributes
    \/ Step_buildLoadBalancerTags
    \/ Step_buildLoadBalancerName
    \/ Return_buildLoadBalancer

---------------------------------------------------------------------------
(* The inputs of a build. *)

Subnet(id, name, vpc, az) ==
    [SubnetId |-> id, Name |-> name, VpcId |-> vpc, AvailabilityZone |-> az]

SecurityGroup(id, name, vpc) == [GroupId |-> id, Name |-> name, VpcId |-> vpc]

\* the subnets an account may hold: two share a Name tag inside the VPC of
\* the task, one carries a tag that another VPC's subnet carries too
CandidateSubnets ==
    << Subnet("subnet-1", "web", "vpc-1", "az-a"),
       Subnet("subnet-2", "web", "vpc-1", "az-a"),
       Subnet("subnet-3", "db", "vpc-1", "az-b"),
       Subnet("subnet-4", "db", "vpc-2", "az-b") >>

CandidateSecurityGroups ==
    << SecurityGroup("sg-1", "web", "vpc-1"),
       SecurityGroup("sg-2", "web", "vpc-1"),
       SecurityGroup("sg-3", "db", "vpc-1"),
       SecurityGroup("sg-4", "db", "vpc-2") >>

\* the entries of s at the positions in keep, in the order of s
RECURSIVE Keep(_, _, _)
Keep(s, keep, i) ==
    IF i > Len(s) THEN <<>>
    ELSE (IF i \in keep THEN <<s[i]>> ELSE <<>>) \o Keep(s, keep, i + 1)

SubSeqs(s) == {Keep(s, keep, 1) : keep \in SUBSET (1..Len(s))}

SeqsUpTo(S, n) == UNION {[1..k -> S] : k \in 0..n}

DefaultCloud ==
    [subnets |-> CandidateSubnets,
     securityGroups |-> CandidateSecurityGroups,
     discovered |-> <<CandidateSubnets[1], CandidateSubnets[3]>>,
     discoverErr |-> FALSE,
     describeSubnetsErr |-> FALSE,
     describeSecurityGroupsErr |-> FALSE,
     managedSGErr |-> FALSE]

DefaultTask ==
    [clusterName |-> "prod",
     ingGroup |-> [ID |-> [Namespace |-> "", Name |-> "shared"], Members |-> <<>>],
     defaultScheme |-> LoadBalancerSchemeInternal,
     defaultIPAddressType |-> IPAddressTypeIPV4,
     vpcID |-> "vpc-1"]

WithMembers(t, ms) == [t EXCEPT !.ingGroup.Members = ms]

\* a build about to start on task t against cloud c
Start(t, c) ==
    /\ task = t
    /\ cloud = c
    /\ pc = "buildLoadBalancerScheme"
    /\ scheme = ""
    /\ ipAddressType = ""
    /\ subnetMappings = <<>>
    /\ securityGroups = <<>>
    /\ loadBalancerAttributes = <<>>
    /\ tags = EmptyMap
    /\ err = NoErr
    /\ lbSpec = ZeroSpec
    /\ loadBalancer = NilLoadBalancer
    /\ stack = {}
    /\ calls = <<>>

RawSchemes == {LoadBalancerSchemeInternal, LoadBalancerSchemeInternetFacing, "public"}
RawIPAddressTypes == {IPAddressTypeIPV4, IPAddressTypeDualStack, "ipv6"}

\* groups whose members differ in the scheme annotation only
InitScheme ==
    \E ms \in SeqsUpTo({[EmptyIng EXCEPT !.scheme = o] :
                          o \in {NoString} \cup {SomeString(v) : v \in RawSchemes}},
                       MaxMembers),
       d \in {LoadBalancerSchemeInternal, LoadBalancerSchemeInternetFacing} :
        Start([WithMembers(DefaultTask, ms) EXCEPT !.defaultScheme = d], DefaultCloud)

\* groups whose members differ in the IP address type annotation only
InitIPAddressType ==
    \E ms \in SeqsUpTo({[EmptyIng EXCEPT !.ipAddressType = o] :
                          o \in {NoString} \cup {SomeString(v) : v \in RawIPAddressTypes}},
                       MaxMembers),
       d \in {IPAddressTypeIPV4, IPAddressTypeDualStack} :
        Start([WithMembers(DefaultTask, ms) EXCEPT !.defaultIPAddressType = d],
              DefaultCloud)

\* token lists of the subnets annotation: the same tokens in two orders, a
\* list with a repeated token, an empty annotation
SubnetLists ==
    { <<>>, <<"subnet-1">>, <<"subnet-1", "db">>, <<"db", "subnet-1">>,
      <<"db", "subnet-1", "db">> }

SecurityGroupLists ==
    { <<>>, <<"sg-1">>, <<"sg-1", "db">>, <<"db", "sg-1">>, <<"db", "sg-1", "db">> }

\* groups whose members differ in the subnets annotation only
InitSubnets ==
    \E ms \in SeqsUpTo({[EmptyIng EXCEPT !.subnets = o] :
                          o \in {NoSlice} \cup {SomeSlice(l) : l \in SubnetLists}},
                       MaxMembers) :
        Start(WithMembers(DefaultTask, ms), DefaultCloud)

\* groups whose members differ in the security-groups annotation only
InitSecurityGroups ==
    \E ms \in SeqsUpTo({[EmptyIng EXCEPT !.securityGroups = o] :
                          o \in {NoSlice} \cup {SomeSlice(l) : l \in SecurityGroupLists}},
                       MaxMembers) :
        Start(WithMembers(DefaultTask, ms), DefaultCloud)

\* the values of a map annotation: absent, malformed, and maps over the keys
\* a and b that agree or disagree on one key or on both
MapAnnotations ==
    { NoMap, MalformedMap, SomeMap("a" :> "1"), SomeMap("b" :> "2"),
      SomeMap(("a" :> "1") @@ ("b" :> "2")), SomeMap(("a" :> "2") @@ ("b" :> "1")) }

\* groups whose members differ in the load-balancer-attributes annotation only
InitAttributes ==
    \E ms \in SeqsUpTo({[EmptyIng EXCEPT !.loadBalancerAttributes = o] :
                          o \in MapAnnotations}, MaxMembers) :
        Start(WithMembers(DefaultTask, ms), DefaultCloud)

\* groups whose members differ in the tags annotation only
InitTags ==
    \E ms \in SeqsUpTo({[EmptyIng EXCEPT !.tags = o] : o \in MapAnnotations},
                       MaxMembers) :
        Start(WithMembers(DefaultTask, ms), DefaultCloud)

SubnetTokens == {"subnet-1", "web", "db"}
SecurityGroupTokens == {"sg-1", "web", "db"}

\* one member naming any list of subnet tokens, against any account
InitResolveSubnets ==
    \E l \in SeqsUpTo(SubnetTokens, MaxTokens),
       c \in {[DefaultCloud EXCEPT !.subnets = ss] : ss \in SubSeqs(CandidateSubnets)}
             \cup {[DefaultCloud EXCEPT !.describeSubnetsErr = TRUE]} :
        Start(WithMembers(DefaultTask, <<[EmptyIng EXCEPT !.subnets = SomeSlice(l)]>>), c)

\* one member naming any list of security group tokens, against any account
InitResolveSecurityGroups ==
    \E l \in SeqsUpTo(SecurityGroupTokens, MaxTokens),
       c \in {[DefaultCloud EXCEPT !.securityGroups = ss] :
                 ss \in SubSeqs(CandidateSecurityGroups)}
             \cup {[DefaultCloud EXCEPT !.describeSecurityGroupsErr = TRUE]} :
        Start(WithMembers(DefaultTask,
                          <<[EmptyIng EXCEPT !.securityGroups = SomeSlice(l)]>>), c)

\* no member names subnets; discovery answers with any list of distinct
\* subnets, or fails
InitDiscover ==
    \E c \in {[DefaultCloud EXCEPT !.discovered = ss] :
                 ss \in {q \in SeqsUpTo(Range(CandidateSubnets), MaxDiscovered) :
                           \A i, j \in DOMAIN q : q[i] = q[j] => i = j}}
             \cup {[DefaultCloud EXCEPT !.discoverErr = TRUE]},
       d \in {LoadBalancerSchemeInternal, LoadBalancerSchemeInternetFacing} :
        Start([DefaultTask EXCEPT !.defaultScheme = d], c)

NameLetters == "aB3dE6gH9jKlMnOpQrStUvWxYz"

\* the name of length n whose characters at the positions in seps are
\* separators and whose other characters are letters and digits, all distinct
RECURSIVE GroupName(_, _, _)
GroupName(n, seps, i) ==
    IF i > n THEN ""
    ELSE (IF i \in seps THEN (IF i % 2 = 1 THEN "-" ELSE ".") ELSE CharAt(NameLetters, i))
            \o GroupName(n, seps, i + 1)

\* groups of any name, explicit (no namespace) or implicit
InitName ==
    \E n \in 0..MaxNameLen, seps \in SUBSET {1, 6, 17, 18},
       ns \in {"", "kube-system"} :
        Start([DefaultTask EXCEPT !.ingGroup.ID =
                  [Namespace |-> ns, Name |-> GroupName(n, seps, 1)]], DefaultCloud)

\* what the two members of a group say about one field: nothing, the same,
\* or two things that do not merge
Scenarios == {"unset", "agree", "conflict"}

StringScenario(sc, v, w) ==
    IF sc = "unset" THEN <<NoString, NoString>>
    ELSE IF sc = "agree" THEN <<SomeString(v), SomeString(v)>>
    ELSE <<SomeString(v), SomeString(w)>>

SliceScenario(sc, u, v, w) ==
    IF sc = "unset" THEN <<NoSlice, NoSlice>>
    ELSE IF sc = "agree" THEN <<SomeSlice(u), SomeSlice(v)>>
    ELSE <<SomeSlice(u), SomeSlice(w)>>

MapScenario(sc) ==
    IF sc = "unset" THEN <<NoMap, NoMap>>
    ELSE IF sc = "agree" THEN <<SomeMap("a" :> "1"), SomeMap("b" :> "2")>>
    ELSE <<SomeMap("a" :> "1"), SomeMap("a" :> "2")>>

Failing(who) ==
    [DefaultCloud EXCEPT !.discoverErr = (who = "DiscoverSubnets"),
                         !.describeSubnetsErr = (who = "DescribeSubnetsAsList"),
                         !.describeSecurityGroupsErr = (who = "DescribeSecurityGroupsAsList"),
                         !.managedSGErr = (who = "buildManagedSecurityGroup")]

\* groups of two members with every field unset, agreed or in conflict, and
\* at most one collaborator failing
InitBuild ==
    \E s1, s2, s3, s4, s5, s6 \in Scenarios,
       who \in {"", "DiscoverSubnets", "DescribeSubnetsAsList",
                "DescribeSecurityGroupsAsList", "buildManagedSecurityGroup"} :
        LET sch == StringScenario(s1, LoadBalancerSchemeInternetFacing,
                                  LoadBalancerSchemeInternal)
            ip == StringScenario(s2, IPAddressTypeDualStack, IPAddressTypeIPV4)
            sub == SliceScenario(s3, <<"subnet-1", "subnet-3">>, <<"subnet-3", "subnet-1">>,
                                 <<"subnet-1">>)
            sg == SliceScenario(s4, <<"sg-1", "db">>, <<"sg-1", "db">>, <<"sg-1">>)
            attr == MapScenario(s5)
            tag == MapScenario(s6)
            ing(i) == [scheme |-> sch[i], ipAddressType |-> ip[i], subnets |-> sub[i],
                       securityGroups |-> sg[i], loadBalancerAttributes |-> attr[i],
                       tags |-> tag[i]]
        IN Start(WithMembers(DefaultTask, <<ing(1), ing(2)>>), Failing(who))

Init ==
    \/ InitScheme
    \/ InitIPAddressType
    \/ InitSubnets
    \/ InitSecurityGroups
    \/ InitAttributes
    \/ InitTags
    \/ InitResolveSubnets
    \/ InitResolveSecurityGroups
    \/ InitDiscover
    \/ InitName
    \/ InitBuild

Spec == Init /\ [][Next]_vars

---------------------------------------------------------------------------
(* What the claims speak of. *)

StepOrder ==
    << "buildLoadBalancerScheme", "buildLoadBalancerIPAddressType",
       "buildLoadBalancerSubnetMappings", "buildLoadBalancerSecurityGroups",
       "buildLoadBalancerAttributes", "buildLoadBalancerTags", "buildLoadBalancerName" >>

\* fn has been invoked
Ran(fn) == \E i \in 1..Len(calls) : calls[i].fn = fn

\* the step invoked last
LastStep ==
    LET steps == SelectSeq(calls, LAMBDA c : c.fn \in Range(StepOrder)) IN
    IF Len(steps) = 0 THEN "" ELSE steps[Len(steps)].fn

\* the step has run and failed
FailedIn(step) == err # NoErr /\ LastStep = step

\* the step has run and returned no error
Succeeded(step) == Ran(step) /\ ~FailedIn(step)

\* the members that carry the annotation
Specifying(suffix) == {i \in 1..Len(Members(task)) : Members(task)[i][suffix].exists}

ValueOf(suffix, i) == Members(task)[i][suffix].value

\* the value of the first member that carries the annotation
FirstSpecified(suffix) ==
    ValueOf(suffix, CHOOSE i \in Specifying(suffix) : \A j \in Specifying(suffix) : i <= j)

Count(list, x) == Cardinality({i \in 1..Len(list) : list[i] = x})

\* the same tokens, each as many times, in any order
IsPermutation(a, b) ==
    /\ Len(a) = Len(b)
    /\ \A x \in Range(a) \cup Range(b) : Count(a, x) = Count(b, x)

---------------------------------------------------------------------------
(* C2 *)

RawValues(suffix) == {ValueOf(suffix, i) : i \in Specifying(suffix)}

SingleValued(step, suffix, result, default, conflict) ==
    Ran(step) =>
        /\ RawValues(suffix) = {} => Succeeded(step) /\ result = default
        /\ Cardinality(RawValues(suffix)) >= 2 =>
               /\ FailedIn(step)
               /\ err.msg = conflict
               /\ err.values = RawValues(suffix)
               /\ result = ""

\* C2: for the scheme and for the IP address type, once the field's step has
\* run: if no member specifies the field the result is the configured default
\* and there is no error; if the members specify two or more distinct raw
\* values the step fails with a conflict error that lists exactly the distinct
\* values, and the value returned is empty.
C2_SingleValuedMerge ==
    /\ SingleValued("buildLoadBalancerScheme", IngressSuffixScheme, scheme,
                    task.defaultScheme, "conflicting scheme")
    /\ SingleValued("buildLoadBalancerIPAddressType", IngressSuffixIPAddressType,
                    ipAddressType, task.defaultIPAddressType, "conflicting IPAddressType")

\* three members, three distinct schemes: the conflict names all three
C2_Witness ==
    /\ pc = "done"
    /\ Cardinality(RawValues(IngressSuffixScheme)) = 3
    /\ FailedIn("buildLoadBalancerScheme")
    /\ err.values = RawValues(IngressSuffixScheme)

---------------------------------------------------------------------------
(* C1 *)

\* all the members that carry the list give the same tokens, and not all in
\* the same order
SameTokensDifferentOrders(suffix) ==
    /\ \A i \in Specifying(suffix) : IsPermutation(ValueOf(suffix, i), FirstSpecified(suffix))
    /\ \E i \in Specifying(suffix) : ValueOf(suffix, i) # FirstSpecified(suffix)

\* the first member's list went to the resolver and no conflict was reported
MergedToFirst(step, suffix, resolver, conflict) ==
    /\ ~(FailedIn(step) /\ err.msg = conflict)
    /\ \E i \in 1..Len(calls) :
          calls[i].fn = resolver /\ calls[i].arg = FirstSpecified(suffix)
    /\ \A i \in 1..Len(calls) :
          calls[i].fn = resolver => calls[i].arg = FirstSpecified(suffix)

SubnetsMergeToFirst ==
    Ran("buildLoadBalancerSubnetMappings") /\ SameTokensDifferentOrders(IngressSuffixSubnets)
        => MergedToFirst("buildLoadBalancerSubnetMappings", IngressSuffixSubnets,
                         "resolveSubnetIDsViaNameOrIDSlice", "conflicting subnets")

\* C1 as stated: for subnets and for security groups alike, members giving
\* the same tokens in different orders merge without conflict, and the list
\* handed to the resolver is the first such member's.
C1_Original ==
    /\ SubnetsMergeToFirst
    /\ Ran("buildLoadBalancerSecurityGroups")
          /\ SameTokensDifferentOrders(IngressSuffixSecurityGroups)
        => MergedToFirst("buildLoadBalancerSecurityGroups", IngressSuffixSecurityGroups,
                         "resolveSecurityGroupIDsViaNameOrIDSlice",
                         "conflicting securityGroups")

\* C1, amended: members giving the same subnet tokens in different orders
\* merge without conflict and the first such member's list, in its order, is
\* what is handed to the subnet resolver.  Security group lists are compared
\* in order: the same tokens in different orders are a conflict error naming
\* the first member's list and the first list that differs from it, and
\* nothing is resolved; when all the lists are equal element for element the
\* first member's list is handed to the security group resolver.
C1_SetFieldsMerge ==
    /\ SubnetsMergeToFirst
    /\ Ran("buildLoadBalancerSecurityGroups")
          /\ SameTokensDifferentOrders(IngressSuffixSecurityGroups)
        => /\ FailedIn("buildLoadBalancerSecurityGroups")
           /\ err.msg = "conflicting securityGroups"
           /\ err.lhs = FirstSpecified(IngressSuffixSecurityGroups)
           /\ err.rhs # err.lhs
           /\ IsPermutation(err.rhs, err.lhs)
           /\ ~Ran("resolveSecurityGroupIDsViaNameOrIDSlice")
           /\ securityGroups = <<>>
    /\ Ran("buildLoadBalancerSecurityGroups")
          /\ Specifying(IngressSuffixSecurityGroups) # {}
          /\ (\A i \in Specifying(IngressSuffixSecurityGroups) :
                ValueOf(IngressSuffixSecurityGroups, i)
                    = FirstSpecified(IngressSuffixSecurityGroups))
        => MergedToFirst("buildLoadBalancerSecurityGroups", IngressSuffixSecurityGroups,
                         "resolveSecurityGroupIDsViaNameOrIDSlice",
                         "conflicting securityGroups")

\* three members give the same two subnets in two orders, and the build ends
\* with the first member's order resolved
C1_Witness ==
    /\ pc = "done"
    /\ err = NoErr
    /\ Cardinality(Specifying(IngressSuffixSubnets)) = 3
    /\ SameTokensDifferentOrders(IngressSuffixSubnets)
    /\ Ran("resolveSubnetIDsViaNameOrIDSlice")
    /\ Len(subnetMappings) = 2

---------------------------------------------------------------------------
(* C3 *)

\* the members whose map annotation parses, absent ones included
WellFormed(suffix) ==
    {i \in 1..Len(Members(task)) : ~Members(task)[i][suffix].malformed}

SomeMalformed(suffix) == WellFormed(suffix) # 1..Len(Members(task))

\* some key appears in two members with different values
ConflictingKey(suffix) ==
    \E i, j \in WellFormed(suffix) :
        \E k \in DOMAIN ValueOf(suffix, i) \cap DOMAIN ValueOf(suffix, j) :
            ValueOf(suffix, i)[k] # ValueOf(suffix, j)[k]

\* the key-by-key union of the members' maps
UnionOfMaps(suffix) ==
    [k \in UNION {DOMAIN ValueOf(suffix, i) : i \in WellFormed(suffix)} |->
        ValueOf(suffix, CHOOSE i \in WellFormed(suffix) : k \in DOMAIN ValueOf(suffix, i))[k]]

\* the list holds every entry of the map once and nothing else
ListsMap(list, m) ==
    /\ Len(list) = Cardinality(DOMAIN m)
    /\ {list[i].Key : i \in 1..Len(list)} = DOMAIN m
    /\ \A i \in 1..Len(list) : list[i].Value = m[list[i].Key]

\* C3 as stated: the merge of tags, and of attributes, fails if and only if
\* some key appears in two members with different values; otherwise the
\* result is the key-by-key union of the members' maps.
C3_Original ==
    /\ Ran("buildLoadBalancerTags") =>
          /\ FailedIn("buildLoadBalancerTags") <=> ConflictingKey(IngressSuffixTags)
          /\ Succeeded("buildLoadBalancerTags") => tags = UnionOfMaps(IngressSuffixTags)
    /\ Ran("buildLoadBalancerAttributes") =>
          /\ FailedIn("buildLoadBalancerAttributes")
                <=> ConflictingKey(IngressSuffixLoadBalancerAttributes)
          /\ Succeeded("buildLoadBalancerAttributes") =>
                ListsMap(loadBalancerAttributes,
                         UnionOfMaps(IngressSuffixLoadBalancerAttributes))

MapMerge(step, suffix) ==
    Ran(step) =>
        /\ FailedIn(step) <=> (ConflictingKey(suffix) \/ SomeMalformed(suffix))
        /\ ConflictingKey(suffix) /\ ~SomeMalformed(suffix) =>
              /\ err.key \in DOMAIN UnionOfMaps(suffix)
              /\ err.lhs # err.rhs

\* C3, amended: the merge of tags, and of attributes, fails if and only if
\* some key appears in two members with different values or some member's
\* annotation is malformed (the parser's error is returned); otherwise the
\* result is exactly the key-by-key union of the members' maps, each key once
\* with its single agreed value, and a member that does not specify the field
\* contributes nothing.
C3_MapFieldsMerge ==
    /\ MapMerge("buildLoadBalancerTags", IngressSuffixTags)
    /\ Succeeded("buildLoadBalancerTags") => tags = UnionOfMaps(IngressSuffixTags)
    /\ MapMerge("buildLoadBalancerAttributes", IngressSuffixLoadBalancerAttributes)
    /\ Succeeded("buildLoadBalancerAttributes") =>
          ListsMap(loadBalancerAttributes, UnionOfMaps(IngressSuffixLoadBalancerAttributes))

\* one member tags a, another tags b, a third has no tags: both keys merged
C3_Witness ==
    /\ pc = "done"
    /\ err = NoErr
    /\ Len(Members(task)) = 3
    /\ Cardinality(Specifying(IngressSuffixTags)) = 2
    /\ \E i, j \in Specifying(IngressSuffixTags) :
          /\ DOMAIN ValueOf(IngressSuffixTags, i) = {"a"}
          /\ DOMAIN ValueOf(IngressSuffixTags, j) = {"b"}
    /\ DOMAIN tags = {"a", "b"}

---------------------------------------------------------------------------
(* C5 *)

SubnetIDsOf(mappings) == [i \in 1..Len(mappings) |-> mappings[i].SubnetID]

\* the token names the entry: its ID, or its Name tag inside the task's VPC
Names(token, id, entry, prefix) ==
    IF HasPrefix(token, prefix) THEN id = token
    ELSE entry.Name = token /\ entry.VpcId = task.vpcID

ReferenceField(suffix, fallback, resolver) ==
    /\ Ran(fallback) <=> Specifying(suffix) = {}
    /\ Ran(resolver) => Specifying(suffix) # {}
    /\ ~(Ran(fallback) /\ Ran(resolver))

\* explicit entries only, or fallback entries only
SubnetsUnmixed ==
    Succeeded("buildLoadBalancerSubnetMappings") =>
        IF Specifying(IngressSuffixSubnets) = {}
        THEN SubnetIDsOf(subnetMappings)
                = [i \in 1..Len(cloud.discovered) |-> cloud.discovered[i].SubnetId]
        ELSE \A i \in 1..Len(subnetMappings) :
                \E e \in Range(cloud.subnets), tok \in Range(FirstSpecified(IngressSuffixSubnets)) :
                    /\ e.SubnetId = subnetMappings[i].SubnetID
                    /\ Names(tok, e.SubnetId, e, SubnetIDPrefix)

SecurityGroupsUnmixed ==
    Succeeded("buildLoadBalancerSecurityGroups") =>
        IF Specifying(IngressSuffixSecurityGroups) = {}
        THEN securityGroups = <<ResourceToken("ManagedLBSecurityGroup")>>
        ELSE \A i \in 1..Len(securityGroups) :
                /\ securityGroups[i].literal
                /\ \E e \in Range(cloud.securityGroups),
                      tok \in Range(FirstSpecified(IngressSuffixSecurityGroups)) :
                      /\ e.GroupId = securityGroups[i].value
                      /\ Names(tok, e.GroupId, e, SecurityGroupIDPrefix)

\* C5 as stated: in every build, DiscoverSubnets is invoked exactly when no
\* member specifies subnets and buildManagedSecurityGroup exactly when no
\* member specifies security groups; a resolver is invoked only when a member
\* specifies its field, never together with the fallback; no output mixes
\* explicit and fallback entries.
C5_Original ==
    pc = "done" =>
        /\ ReferenceField(IngressSuffixSubnets, "DiscoverSubnets",
                          "resolveSubnetIDsViaNameOrIDSlice")
        /\ ReferenceField(IngressSuffixSecurityGroups, "buildManagedSecurityGroup",
                          "resolveSecurityGroupIDsViaNameOrIDSlice")
        /\ SubnetsUnmixed
        /\ SecurityGroupsUnmixed

\* C5, amended: in every build that reaches the field's step (no earlier step
\* failed), the fallback collaborator is invoked if and only if no member
\* specifies the field, the resolver only when a member specifies it, never
\* both, and the field's output holds explicit entries only or fallback
\* entries only; in a build that fails before the step neither is invoked.
C5_ExplicitOrFallback ==
    /\ Ran("buildLoadBalancerSubnetMappings") =>
          ReferenceField(IngressSuffixSubnets, "DiscoverSubnets",
                         "resolveSubnetIDsViaNameOrIDSlice")
    /\ ~Ran("buildLoadBalancerSubnetMappings") =>
          ~Ran("DiscoverSubnets") /\ ~Ran("resolveSubnetIDsViaNameOrIDSlice")
    /\ Ran("buildLoadBalancerSecurityGroups") =>
          ReferenceField(IngressSuffixSecurityGroups, "buildManagedSecurityGroup",
                         "resolveSecurityGroupIDsViaNameOrIDSlice")
    /\ ~Ran("buildLoadBalancerSecurityGroups") =>
          ~Ran("buildManagedSecurityGroup")
             /\ ~Ran("resolveSecurityGroupIDsViaNameOrIDSlice")
    /\ SubnetsUnmixed
    /\ SecurityGroupsUnmixed

\* a member names subnets, none names security groups: the subnets come from
\* the resolver, the security group from the provisioner
C5_Witness ==
    /\ pc = "done"
    /\ err = NoErr
    /\ Specifying(IngressSuffixSubnets) # {}
    /\ Specifying(IngressSuffixSecurityGroups) = {}
    /\ Ran("resolveSubnetIDsViaNameOrIDSlice") /\ ~Ran("DiscoverSubnets")
    /\ Ran("buildManagedSecurityGroup")
    /\ Len(subnetMappings) = 2

---------------------------------------------------------------------------
(* C6 *)

ZoneOf(subnetID) ==
    (CHOOSE e \in Range(cloud.discovered) : e.SubnetId = subnetID).AvailabilityZone

\* at least two entries, no two of them in one Availability Zone
TwoDistinctZones(ids) ==
    /\ Len(ids) >= MinDiscoveredSubnets
    /\ \A i, j \in 1..Len(ids) : i # j => ZoneOf(ids[i]) # ZoneOf(ids[j])

\* C6: when no member specifies subnets and buildLoadBalancerSubnetMappings
\* succeeds, the mappings are at least two and come from distinct
\* Availability Zones; when discovery answers with anything else the step
\* fails with the insufficient-placement error.
C6_Claim ==
    Ran("buildLoadBalancerSubnetMappings") /\ Specifying(IngressSuffixSubnets) = {}
        /\ ~cloud.discoverErr
    => LET discoveredIDs == [i \in 1..Len(cloud.discovered) |-> cloud.discovered[i].SubnetId]
       IN IF TwoDistinctZones(discoveredIDs)
          THEN Succeeded("buildLoadBalancerSubnetMappings")
                 /\ TwoDistinctZones(SubnetIDsOf(subnetMappings))
          ELSE /\ FailedIn("buildLoadBalancerSubnetMappings")
               /\ err.msg = "cannot find at least two subnets from different Availability Zones"

---------------------------------------------------------------------------
(* C7 *)

IsPrefix(a, b) == Len(a) <= Len(b) /\ SubSeq(b, 1, Len(a)) = a

StepsRun ==
    LET steps == SelectSeq(calls, LAMBDA c : c.fn \in Range(StepOrder)) IN
    [i \in 1..Len(steps) |-> steps[i].fn]

Collaborators(step) ==
    IF step = "buildLoadBalancerSubnetMappings"
    THEN {"DiscoverSubnets", "resolveSubnetIDsViaNameOrIDSlice", "DescribeSubnetsAsList"}
    ELSE IF step = "buildLoadBalancerSecurityGroups"
    THEN {"buildManagedSecurityGroup", "resolveSecurityGroupIDsViaNameOrIDSlice",
          "DescribeSecurityGroupsAsList"}
    ELSE {}

\* C7: the steps run in the order scheme, IP address type, subnet mappings,
\* security groups, attributes, tags, name, every collaborator inside its own
\* step; once a step has failed the spec returned is the zero value, no later
\* step and no collaborator of a later step is ever invoked, buildLoadBalancer
\* returns no load balancer, t.loadBalancer keeps its value and no
\* LoadBalancer resource is registered on the stack; a build without error
\* runs all seven steps.
C7_OrderAndAbort ==
    /\ IsPrefix(StepsRun, StepOrder)
    /\ \A i \in 1..Len(calls) :
          \A k \in 1..Len(StepOrder) :
              calls[i].fn \in Collaborators(StepOrder[k]) =>
                  /\ \E j \in 1..(i - 1) : calls[j].fn = StepOrder[k]
                  /\ \A j \in 1..(i - 1) :
                        calls[j].fn \in Range(StepOrder) =>
                            \E m \in 1..k : calls[j].fn = StepOrder[m]
    /\ err # NoErr =>
          /\ pc \in {"return", "done"}
          /\ lbSpec = ZeroSpec
          /\ loadBalancer = NilLoadBalancer
          /\ resourceIDLoadBalancer \notin stack
          /\ ~Ran("NewLoadBalancer")
    /\ pc = "done" /\ err = NoErr =>
          /\ StepsRun = StepOrder
          /\ loadBalancer = NewLoadBalancer(resourceIDLoadBalancer, lbSpec)
          /\ lbSpec # ZeroSpec

\* the security group lookup fails: four steps have run, no attributes, no
\* tags, no name, no load balancer
C7_Witness ==
    /\ pc = "done"
    /\ FailedIn("buildLoadBalancerSecurityGroups")
    /\ Ran("DescribeSecurityGroupsAsList")
    /\ Specifying(IngressSuffixTags) # {}
    /\ Len(StepsRun) = 4
    /\ loadBalancer = NilLoadBalancer

---------------------------------------------------------------------------
(* C8 *)

\* the generated name is k8s-<segment>-<HashLen hexadecimal digits>
NameWellFormed(n) ==
    /\ Len(n) >= 4 + 1 + HashLen
    /\ SubSeq(n, 1, 4) = "k8s-"
    /\ CharAt(n, Len(n) - HashLen) = "-"
    /\ \A i \in (Len(n) - HashLen + 1)..Len(n) :
          \E d \in 1..Len(HexDigits) : CharAt(n, i) = CharAt(HexDigits, d)

\* what stands between the prefix k8s- and the suffix -<hash>
Segment(n) == SubSeq(n, 5, Len(n) - HashLen - 1)

AlnumPositions(name) == {i \in 1..Len(name) : IsAlnum(CharAt(name, i))}

\* the position of the i-th alphanumeric character of name
NthAlnum(name, i) ==
    CHOOSE q \in AlnumPositions(name) :
        Cardinality({r \in AlnumPositions(name) : r <= q}) = i

\* seg is the first characters of name that are alphanumeric, in their order
FirstAlnumsOf(seg, name) ==
    /\ Len(seg) <= Cardinality(AlnumPositions(name))
    /\ \A i \in 1..Len(seg) : CharAt(seg, i) = CharAt(name, NthAlnum(name, i))

NameBuilt == Ran("buildLoadBalancerName") /\ IsExplicit(task.ingGroup.ID)

\* C8 as stated: for an explicit group whose name is longer than 17
\* characters, the segment of the generated name is exactly 17 characters long,
\* all alphanumeric characters of the group name in their original order.
C8_Original ==
    NameBuilt /\ Len(task.ingGroup.ID.Name) > ExplicitNameLen =>
        /\ NameWellFormed(lbSpec.Name)
        /\ Len(Segment(lbSpec.Name)) = ExplicitNameLen
        /\ FirstAlnumsOf(Segment(lbSpec.Name), task.ingGroup.ID.Name)

\* C8, amended: for an explicit group the segment of the generated name is
\* the first 17 alphanumeric characters of the group name in their original
\* order, exactly 17 characters whenever the name holds at least 17
\* alphanumeric characters; a name with fewer of them, however long, gives a
\* segment of all its alphanumeric characters, shorter than 17.
C8_ExplicitNameSegment ==
    NameBuilt =>
        /\ NameWellFormed(lbSpec.Name)
        /\ Len(Segment(lbSpec.Name))
              = Min(ExplicitNameLen, Cardinality(AlnumPositions(task.ingGroup.ID.Name)))
        /\ FirstAlnumsOf(Segment(lbSpec.Name), task.ingGroup.ID.Name)

\* a name of 20 characters, two of them separators: 18 alphanumeric
\* characters cut to 17
C8_Witness ==
    /\ pc = "done"
    /\ NameBuilt
    /\ Len(task.ingGroup.ID.Name) = 20
    /\ Cardinality(AlnumPositions(task.ingGroup.ID.Name)) = 18
    /\ Len(Segment(lbSpec.Name)) = ExplicitNameLen

---------------------------------------------------------------------------
(* C9 *)

\* the task with its members iterated in the order p
Permuted(p) ==
    WithMembers(task, [i \in 1..Len(Members(task)) |-> Members(task)[p[i]]])

MemberOrders == Permutations(1..Len(Members(task)))

Unset == [value |-> <<>>, err |-> NoErr]

SubnetMerge(t) ==
    IF Len(explicitSubnetNameOrIDsList(t)) = 0 THEN Unset ELSE chosenSubnetNameOrIDs(t)

SGMerge(t) ==
    IF Len(explicitSGNameOrIDsList(t)) = 0 THEN Unset ELSE chosenSGNameOrIDs(t)

Fails(outcomes) == \E r \in outcomes : r.err # NoErr

---------------------------------------------------------------------------
(* C4, C10 *)

\* the list handed to the resolver
Requested(resolver) == (CHOOSE c \in Range(calls) : c.fn = resolver).arg

SubnetExists(tok) ==
    \E e \in Range(cloud.subnets) : Names(tok, e.SubnetId, e, SubnetIDPrefix)

SecurityGroupExists(tok) ==
    \E e \in Range(cloud.securityGroups) : Names(tok, e.GroupId, e, SecurityGroupIDPrefix)

Distinct(list) == \A i, j \in 1..Len(list) : list[i] = list[j] => i = j

\* N distinct tokens requested, N-1 of them exist (existing: the positions
\* of those that do)
AllButOne(list, existing) ==
    /\ Len(list) >= 1
    /\ Distinct(list)
    /\ Cardinality(existing) = Len(list) - 1

ExistingSubnets(list) == {i \in 1..Len(list) : SubnetExists(list[i])}

ExistingSecurityGroups(list) == {i \in 1..Len(list) : SecurityGroupExists(list[i])}

\* the error names the N tokens requested and N-1 entries found
NotAllFound(step, msg, list) ==
    /\ FailedIn(step)
    /\ err.msg = msg
    /\ err.lhs = list
    /\ Len(err.rhs) = Len(list) - 1

\* C4: when N tokens are requested of a resolver and only N-1 of them exist
\* (for a name: inside the VPC), the resolution fails with an error whose
\* requested list is the N tokens and whose found list has exactly N-1
\* entries, and no IDs are returned.
C4_Claim ==
    /\ Ran("resolveSubnetIDsViaNameOrIDSlice") /\ ~cloud.describeSubnetsErr
          /\ AllButOne(Requested("resolveSubnetIDsViaNameOrIDSlice"),
                       ExistingSubnets(Requested("resolveSubnetIDsViaNameOrIDSlice")))
        => /\ NotAllFound("buildLoadBalancerSubnetMappings", "couldn't found all subnets",
                          Requested("resolveSubnetIDsViaNameOrIDSlice"))
           /\ subnetMappings = <<>>
    /\ Ran("resolveSecurityGroupIDsViaNameOrIDSlice") /\ ~cloud.describeSecurityGroupsErr
          /\ AllButOne(Requested("resolveSecurityGroupIDsViaNameOrIDSlice"),
                       ExistingSecurityGroups(
                           Requested("resolveSecurityGroupIDsViaNameOrIDSlice")))
        => /\ NotAllFound("buildLoadBalancerSecurityGroups",
                          "couldn't found all securityGroups",
                          Requested("resolveSecurityGroupIDsViaNameOrIDSlice"))
           /\ securityGroups = <<>>

\* C10: when a resolver returns successfully every requested token is
\* covered: a requested ID is in the list returned, a requested name has an
\* entry in the list returned that carries the name as its Name tag inside
\* the VPC.
C10_Claim ==
    /\ Ran("resolveSubnetIDsViaNameOrIDSlice")
          /\ Succeeded("buildLoadBalancerSubnetMappings")
        => \A tok \in Range(Requested("resolveSubnetIDsViaNameOrIDSlice")) :
              \E e \in Range(cloud.subnets) :
                  /\ e.SubnetId \in Range(SubnetIDsOf(subnetMappings))
                  /\ Names(tok, e.SubnetId, e, SubnetIDPrefix)
    /\ Ran("resolveSecurityGroupIDsViaNameOrIDSlice")
          /\ Succeeded("buildLoadBalancerSecurityGroups")
        => \A tok \in Range(Requested("resolveSecurityGroupIDsViaNameOrIDSlice")) :
              \E e \in Range(cloud.securityGroups) :
                  /\ LiteralStringToken(e.GroupId) \in Range(securityGroups)
                  /\ Names(tok, e.GroupId, e, SecurityGroupIDPrefix)

====
